---- MODULE Spec2Model ----
(***************************************************************************)
(* Model of tools/src/cmd_pipeline/interface.rs:                           *)
(*   - ServerPipelineGraph::run, NamedPipeline::run and                    *)
(*     JunctionInvocation::run (the pipeline graph scheduler and the tasks *)
(*     it spawns), specifications Spec, SpecFairTasks and SpecFairRun;     *)
(*   - FlattenedResultsByFile::ingest_html_lines (line-span                *)
(*     reconciliation), specifications SpecIngest and SpecRerun;           *)
(*   - FlattenedResultsBundle::compute_path_line_sets followed by          *)
(*     ingest_html_lines over a bundle, specification SpecBundle;          *)
(*   - SymbolQuality and its ordering, specification SpecQuality;          *)
(* and of tools/src/cmd_pipeline/cmd_search_text.rs:                       *)
(*   - SearchTextCommand::execute, specification SpecSearch.               *)
(***************************************************************************)
EXTENDS Integers, Sequences, FiniteSets, TLC

\* ------------------------------------------------------------------------
\* Bounds of the model
\* ------------------------------------------------------------------------
NumStages == 2
MaxPipelines == 2
MaxJunctions == 2
MaxCommands == 2
MaxInputs == 2
MaxTasks == 3
FairStages == 1
MaxSpans == 3
MaxLine == 3
MaxContext == 1
MaxRuns == 2
MaxMatched == 3
MaxExtra == 3
MaxStrLen == 2
MaxLimit == 1
MaxPathKindGroups == 2
MaxKindGroups == 1
MaxByFile == 2
MaxBundleSpans == 2
MaxBundleLine == 2

\* The names a graph may use as input and output keys; "result" is the
\* reserved key read at the end of run.
Keys == {"a", "result"}
ResultKeyOtherMutant == "a"

ResultKey == "result"

\* ------------------------------------------------------------------------
\* Values
\* ------------------------------------------------------------------------
\* A PipelineValues is modelled by its provenance: the sequence of the
\* identities of the operations that built it.  Void is the empty sequence.
Void == << >>

\* Identity of command c of named pipeline p of stage s, and of junction j
\* of stage s.  0 is kept as the separator used by JunctionOutput.
CmdId(s, p, c) == s * 100 + p * 10 + c
JunctionId(s, j) == s * 100 + 90 + j

\* What a successful PipelineCommand::execute returns: a value that depends
\* on the command and on the input it was given.
CommandOutput(id, input) == Append(input, id)

RECURSIVE FlattenInputs(_)
FlattenInputs(values) ==
    IF values = << >> THEN << >>
    ELSE Head(values) \o <<0>> \o FlattenInputs(Tail(values))

\* What a successful PipelineJunctionCommand::execute returns: a value that
\* depends on the junction and on the ordered list of inputs.
JunctionOutput(id, values) == <<id>> \o FlattenInputs(values)

\* Option<String>
NoName == << >>
SomeName(k) == <<k>>

\* Identity of the task whose output an entry of the store is (history).
NoProducer == << >>
Producer(s, kind, i) == <<s, kind, i>>

\* ------------------------------------------------------------------------
\* State
\* ------------------------------------------------------------------------
VARIABLES
    pc,              \* position of ServerPipelineGraph::run
    stage,           \* number of the stage being run (0 before the first)
    named_values,    \* the keyed store: a function from a subset of Keys
    origin,          \* history: which task produced each stored entry
    claimed,         \* history: producers whose entry was handed to a reader
    pipeline_tasks,  \* the named pipelines spawned for this stage
    p_joined,        \* how many of them the join loop has consumed
    junction_tasks,  \* the junctions spawned for this stage
    j_joined,        \* how many of them the join loop has consumed
    result,          \* what run returned
    spawned,         \* history: number of tasks spawned so far
    \* FlattenedResultsByFile::ingest_html_lines
    ipc,             \* position of ingest_html_lines
    present,         \* is the file a key of path_line_contents
    file_contents,   \* the lines of the file that have content
    before,
    after,
    orig_spans,      \* history: line_spans as they were before the call
    line_spans,      \* self.line_spans
    i_span,          \* loop index (0-based, as in the source)
    highest_line,
    clamped,         \* history: the clamped (this_start, this_end) per span
    runs,            \* history: number of applications of ingest_html_lines
    looked_up,       \* history: the lines looked up in file_contents
    \* SymbolQuality
    qpc,             \* position of the comparison
    q1,
    q2,
    q_lt,            \* q1 < q2
    q_cmp,           \* q1.cmp(&q2)
    q_eq,            \* q1 == q2
    \* SearchTextCommand::execute
    spc,             \* position of execute
    args,            \* self.args
    backend_calls,   \* the search_text calls the backend has received
    sresult,         \* what execute returned
    \* FlattenedResultsBundle
    bpc,             \* position of the caller: compute_path_line_sets, then
                     \* ingest_html_lines
    bundle,          \* the per-file groups of the bundle, in traversal order
    orig_bundle,     \* history: the bundle as compute_path_line_sets saw it
    b_idx,           \* per-file groups ingest_html_lines has gone through
    content_type,    \* self.content_type
    path_line_contents, \* file -> lines with content, as given to ingest
    path_line_sets,  \* file -> set of lines, as compute_path_line_sets builds it
    lookups          \* history: file -> lines looked up by ingest_html_lines

graphVars == <<pc, stage, named_values, origin, claimed, pipeline_tasks,
               p_joined, junction_tasks, j_joined, result, spawned>>
ingestVars == <<ipc, present, file_contents, before, after, orig_spans,
                line_spans, i_span, highest_line, clamped, runs, looked_up>>
qualityVars == <<qpc, q1, q2, q_lt, q_cmp, q_eq>>
searchVars == <<spc, args, backend_calls, sresult>>
bundleVars == <<bpc, bundle, orig_bundle, b_idx, content_type,
                path_line_contents, path_line_sets, lookups>>
vars == <<graphVars, ingestVars, qualityVars, searchVars, bundleVars>>

\* ------------------------------------------------------------------------
\* The keyed store (BTreeMap<String, PipelineValues>)
\* ------------------------------------------------------------------------
EmptyMap == [k \in {} |-> Void]

MapGetOrVoid(m, k) == IF k \in DOMAIN m THEN m[k] ELSE Void

MapRemoveKeepsMutant(m, k) == m

MapRemove(m, k) == [x \in (DOMAIN m) \ {k} |-> m[x]]

MapInsert(m, k, v) == [x \in (DOMAIN m) \cup {k} |-> IF x = k THEN v ELSE m[x]]

OriginOf(o, k) == IF k \in DOMAIN o THEN o[k] ELSE NoProducer

\* ------------------------------------------------------------------------
\* Results
\* ------------------------------------------------------------------------
NoResult == [kind |-> "none", val |-> Void, err |-> 0]
OkResult(v) == [kind |-> "ok", val |-> v, err |-> 0]
ErrResult(e) == [kind |-> "err", val |-> Void, err |-> e]

\* ------------------------------------------------------------------------
\* NamedPipeline::run, as the task spawned for it
\* ------------------------------------------------------------------------
\* The task of a named pipeline right after tokio::spawn: nothing executed.
\* log is history: the commands executed so far and the input each received;
\* late is history: the task finished after run had returned.
NewPipelineTask(input_name, output_name, ncmds, input, from) ==
    [input_name |-> input_name, output |-> output_name, ncmds |-> ncmds,
     input |-> input, from |-> from, cur |-> input, pos |-> 0,
     status |-> "running", err |-> 0, log |-> << >>, late |-> FALSE]

PipelineStepSwallowsErrorMutant(t, s, p, ok) ==
    LET id == CmdId(s, p, t.pos + 1)
        entry == [cmd |-> t.pos + 1, input |-> t.cur]
    IN  IF ok
        THEN [t EXCEPT !.cur = CommandOutput(id, t.cur), !.pos = t.pos + 1,
                       !.log = Append(t.log, entry)]
        ELSE [t EXCEPT !.pos = t.pos + 1, !.log = Append(t.log, entry)]

\* One iteration of `for cmd in &self.commands`: command t.pos + 1 is
\* executed on cur_values; Ok replaces cur_values, Err ends the task.
PipelineStep(t, s, p, ok) ==
    LET id == CmdId(s, p, t.pos + 1)
        entry == [cmd |-> t.pos + 1, input |-> t.cur]
    IN  IF ok
        THEN [t EXCEPT !.cur = CommandOutput(id, t.cur), !.pos = t.pos + 1,
                       !.log = Append(t.log, entry)]
        ELSE [t EXCEPT !.status = "err", !.err = id,
                       !.log = Append(t.log, entry)]

\* NamedPipeline::run: the command loop from position t.pos on, where
\* command fail_at (0: none) is the one that fails, then Ok(cur_values).
RECURSIVE RunCommands(_, _, _, _)
RunCommands(t, s, p, fail_at) ==
    IF t.status = "err" THEN t
    ELSE IF t.pos >= t.ncmds THEN [t EXCEPT !.status = "ok"]
    ELSE RunCommands(PipelineStep(t, s, p, t.pos + 1 # fail_at), s, p, fail_at)

\* ------------------------------------------------------------------------
\* JunctionInvocation::run, as the task spawned for it
\* ------------------------------------------------------------------------
NewJunctionTask(input_names, output_name, values, from) ==
    [input_names |-> input_names, output |-> output_name,
     input_values |-> values, from |-> from, calls |-> 0,
     status |-> "running", val |-> Void, err |-> 0, seen |-> << >>,
     late |-> FALSE]

\* self.command.execute(&server, input_values): seen is history, the list
\* the fan-in operation was invoked with.
JunctionStep(t, s, j, ok) ==
    LET id == JunctionId(s, j)
    IN  IF ok
        THEN [t EXCEPT !.status = "ok", !.val = JunctionOutput(id, t.input_values),
                       !.calls = t.calls + 1, !.seen = t.input_values]
        ELSE [t EXCEPT !.status = "err", !.err = id,
                       !.calls = t.calls + 1, !.seen = t.input_values]

RECURSIVE PopInputsSkipsMissingMutant(_, _, _)
PopInputsSkipsMissingMutant(m, o, names) ==
    IF names = << >>
    THEN [values |-> << >>, from |-> << >>, store |-> m, origin |-> o]
    ELSE LET k == Head(names)
             rest == PopInputsSkipsMissingMutant(MapRemove(m, k), MapRemove(o, k),
                                                 Tail(names))
         IN  IF k \in DOMAIN m
             THEN [values |-> <<m[k]>> \o rest.values,
                   from |-> <<o[k]>> \o rest.from,
                   store |-> rest.store, origin |-> rest.origin]
             ELSE rest

\* The loop `for name in &junction.input_names` of ServerPipelineGraph::run:
\* each name is removed from the store in turn, Void standing for a miss.
RECURSIVE PopInputs(_, _, _)
PopInputs(m, o, names) ==
    IF names = << >>
    THEN [values |-> << >>, from |-> << >>, store |-> m, origin |-> o]
    ELSE LET k == Head(names)
             rest == PopInputs(MapRemove(m, k), MapRemove(o, k), Tail(names))
         IN  [values |-> <<MapGetOrVoid(m, k)>> \o rest.values,
              from |-> <<OriginOf(o, k)>> \o rest.from,
              store |-> rest.store, origin |-> rest.origin]

RECURSIVE SeqRange(_)
SeqRange(q) == IF q = << >> THEN {} ELSE {Head(q)} \cup SeqRange(Tail(q))

InputNameLists == UNION {[1..n -> Keys] : n \in 0..MaxInputs}

\* ------------------------------------------------------------------------
\* Initial states
\* ------------------------------------------------------------------------
GraphInit ==
    /\ pc = "stage_loop"
    /\ stage = 0
    /\ named_values = EmptyMap
    /\ origin = EmptyMap
    /\ claimed = {}
    /\ pipeline_tasks = << >>
    /\ p_joined = 0
    /\ junction_tasks = << >>
    /\ j_joined = 0
    /\ result = NoResult
    /\ spawned = 0

\* ingest_html_lines is not running in the scheduler's specification.
IngestIdle ==
    /\ ipc = "idle"
    /\ present = FALSE
    /\ file_contents = {}
    /\ before = 0
    /\ after = 0
    /\ orig_spans = << >>
    /\ line_spans = << >>
    /\ i_span = 0
    /\ highest_line = 0
    /\ clamped = << >>
    /\ runs = 0
    /\ looked_up = {}

\* ------------------------------------------------------------------------
\* SymbolQuality
\* ------------------------------------------------------------------------
\* The variants of the enum; matched and extra are the fields of
\* IdentifierPrefix(u32, u32) and 0 in the variants without fields.
ExplicitSymbol == [tag |-> "ExplicitSymbol", matched |-> 0, extra |-> 0]
ExplicitIdentifier == [tag |-> "ExplicitIdentifier", matched |-> 0, extra |-> 0]
ExactIdentifier == [tag |-> "ExactIdentifier", matched |-> 0, extra |-> 0]
IdentifierPrefix(matched, extra) ==
    [tag |-> "IdentifierPrefix", matched |-> matched, extra |-> extra]

\* "The latter number should always be at least 1, as 0 would make this
\* `ExactIdentifier`": the values the program builds.
SymbolQualities ==
    {ExplicitSymbol, ExplicitIdentifier, ExactIdentifier}
        \cup {IdentifierPrefix(m, e) : m \in 1..MaxMatched, e \in 1..MaxExtra}

NumericRankByMatchedMutant(q) ==
    CASE q.tag = "ExplicitSymbol" -> 0
      [] q.tag = "ExplicitIdentifier" -> 1
      [] q.tag = "ExactIdentifier" -> 2
      [] q.tag = "IdentifierPrefix" -> 2 + q.matched

\* SymbolQuality::numeric_rank
numeric_rank(q) ==
    CASE q.tag = "ExplicitSymbol" -> 0
      [] q.tag = "ExplicitIdentifier" -> 1
      [] q.tag = "ExactIdentifier" -> 2
      [] q.tag = "IdentifierPrefix" -> 2 + q.extra

\* u32::cmp
CmpU32(a, b) == IF a < b THEN "Less" ELSE IF a = b THEN "Equal" ELSE "Greater"

\* impl Ord for SymbolQuality
cmp(self, other) ==
    LET self_rank == numeric_rank(self)
        other_rank == numeric_rank(other)
    IN  CmpU32(self_rank, other_rank)

\* impl PartialOrd for SymbolQuality: Some(ordering) of the two ranks
partial_cmp(self, other) ==
    LET self_rank == numeric_rank(self)
        other_rank == numeric_rank(other)
    IN  <<CmpU32(self_rank, other_rank)>>

\* `a < b` is PartialOrd::lt: partial_cmp gave Some(Less)
lt(self, other) == partial_cmp(self, other) = <<"Less">>

\* #[derive(PartialEq, Eq)]: same variant and same fields
eq(self, other) ==
    /\ self.tag = other.tag
    /\ self.tag = "IdentifierPrefix" =>
          /\ self.matched = other.matched
          /\ self.extra = other.extra

\* No SymbolQuality comparison is running.
QualityIdle ==
    /\ qpc = "idle"
    /\ q1 = ExplicitSymbol
    /\ q2 = ExplicitSymbol
    /\ q_lt = FALSE
    /\ q_cmp = "none"
    /\ q_eq = FALSE

\* ------------------------------------------------------------------------
\* SearchText
\* ------------------------------------------------------------------------
\* A String is the sequence of its characters; an Option<String> is None or
\* Some(string).
Chars == {"a", "."}
Strings == UNION {[1..n -> Chars] : n \in 0..MaxStrLen}
None == << >>
Some(x) == <<x>>
OptionStrings == {None} \cup {Some(x) : x \in Strings}

\* The characters regex::escape puts a backslash before; the model's
\* alphabet has one of them.
MetaChars == {"."}

\* regex::escape
RECURSIVE RegexEscape(_)
RegexEscape(text) ==
    IF text = << >> THEN << >>
    ELSE (IF Head(text) \in MetaChars THEN <<"\\", Head(text)>> ELSE <<Head(text)>>)
            \o RegexEscape(Tail(text))

\* transforms::path_glob_transform turns a path glob into a regexp; its
\* result is kept as the application to its argument.
path_glob_transform(path) == <<"path_glob_transform">> \o path

\* The value of execute: nothing yet, Ok(TextMatches(matches)) with the
\* matches the backend gave for a call, or Err with the layer of the error.
NoSearchResult == [kind |-> "none", layer |-> "", matches |-> << >>]
BadInputError == [kind |-> "Err", layer |-> "BadInput", matches |-> << >>]
BackendError == [kind |-> "Err", layer |-> "backend", matches |-> << >>]
TextMatches(call) == [kind |-> "Ok", layer |-> "", matches |-> <<call>>]

\* No SearchTextCommand is running.
SearchIdle ==
    /\ spc = "idle"
    /\ args = << >>
    /\ backend_calls = << >>
    /\ sresult = NoSearchResult

\* No bundle is being processed.
BundleIdle ==
    /\ bpc = "idle"
    /\ bundle = << >>
    /\ orig_bundle = << >>
    /\ b_idx = 0
    /\ content_type = "text/plain"
    /\ path_line_contents = EmptyMap
    /\ path_line_sets = EmptyMap
    /\ lookups = EmptyMap

Init == GraphInit /\ IngestIdle /\ QualityIdle /\ SearchIdle /\ BundleIdle

\* ------------------------------------------------------------------------
\* ServerPipelineGraph::run
\* ------------------------------------------------------------------------
DispatchInputDefaultsToResultMutant(m, input_name) ==
    IF input_name # NoName
    THEN MapGetOrVoid(m, input_name[1])
    ELSE MapGetOrVoid(m, ResultKey)

\* The initial value of a named pipeline: the stored value of its input
\* name, Void when the name is missing or when it declares no input.
DispatchInput(m, input_name) ==
    IF input_name # NoName
    THEN MapGetOrVoid(m, input_name[1])
    ELSE Void

\* What the dispatch of a named pipeline leaves of a map of the store.
DispatchRemove(m, input_name) ==
    IF input_name # NoName THEN MapRemove(m, input_name[1]) ELSE m

NextHandleFromEndMutant(tasks, joined) == Len(tasks) - joined

\* `for (output, handle) in tasks`: the handle the join loop awaits next.
NextHandle(tasks, joined) == joined + 1

FinishedNoWaitMutant(t) == TRUE

\* `handle.await` completes once the task has finished.
Finished(t) == t.status # "running"

AllJoinedAfterFirstMutant(tasks, joined) == joined >= 1 \/ Len(tasks) = 0

\* The join loop is over when every handle has been consumed.
AllJoined(tasks, joined) == joined = Len(tasks)

\* `for pipeline in self.pipelines` yields the next stage.
BeginStage ==
    /\ pc = "stage_loop"
    /\ stage < NumStages
    /\ stage' = stage + 1
    /\ pc' = "dispatch_pipelines"
    /\ UNCHANGED <<named_values, origin, claimed, pipeline_tasks, p_joined,
                   junction_tasks, j_joined, result, spawned, ingestVars, qualityVars, searchVars, bundleVars>>

\* `for named_pipeline in pipeline.pipelines`: the input is removed from the
\* store (Void when missing or when no input is declared) and the task is
\* spawned.
DispatchPipeline(input_name, output_name, ncmds) ==
    /\ pc = "dispatch_pipelines"
    /\ Len(pipeline_tasks) < MaxPipelines
    /\ spawned < MaxTasks
    /\ spawned' = spawned + 1
    /\ LET input == DispatchInput(named_values, input_name)
           from == IF input_name # NoName
                   THEN OriginOf(origin, input_name[1])
                   ELSE NoProducer
       IN  /\ pipeline_tasks' = Append(pipeline_tasks,
                  NewPipelineTask(input_name, output_name, ncmds, input, from))
           /\ named_values' = DispatchRemove(named_values, input_name)
           /\ origin' = DispatchRemove(origin, input_name)
           /\ claimed' = IF from # NoProducer THEN claimed \cup {from} ELSE claimed
    /\ UNCHANGED <<pc, stage, p_joined, junction_tasks, j_joined, result, ingestVars, qualityVars, searchVars, bundleVars>>

\* The dispatch loop has no more named pipelines.
EndDispatchPipelines ==
    /\ pc = "dispatch_pipelines"
    /\ pc' = "join_pipelines"
    /\ UNCHANGED <<stage, named_values, origin, claimed, pipeline_tasks, p_joined,
                   junction_tasks, j_joined, result, spawned, ingestVars, qualityVars, searchVars, bundleVars>>

TaskAbortedOnReturnMutant(run_pc) == run_pc # "returned"

\* tokio::spawn: the runtime goes on polling a spawned task whatever run is
\* doing; dropping its JoinHandle when run returns detaches the task, it
\* does not abort it.
TaskMayRun(run_pc) == TRUE

\* A spawned named pipeline runs NamedPipeline::run; fail_at is the
\* command that fails (0: every command succeeds).
PipelineRun(p, fail_at) ==
    /\ p \in 1..Len(pipeline_tasks)
    /\ pipeline_tasks[p].status = "running"
    /\ TaskMayRun(pc)
    /\ fail_at \in 0..pipeline_tasks[p].ncmds
    /\ pipeline_tasks' = [pipeline_tasks EXCEPT
                             ![p] = [RunCommands(pipeline_tasks[p], stage, p, fail_at)
                                        EXCEPT !.late = (pc = "returned")]]
    /\ UNCHANGED <<pc, stage, named_values, origin, claimed, p_joined,
                   junction_tasks, j_joined, result, spawned, ingestVars, qualityVars, searchVars, bundleVars>>

\* What `handle.await??` makes of a finished task: its value is kept, or
\* its error leaves run.
JoinOutcomeIgnoresErrorMutant(t) == "insert"

JoinOutcome(t) == IF t.status = "err" THEN "return" ELSE "insert"

\* `for (output, handle) in pipeline_tasks`: the next handle is awaited;
\* its value is inserted under its output name, or its error is returned.
JoinPipeline ==
    /\ pc = "join_pipelines"
    /\ p_joined < Len(pipeline_tasks)
    /\ LET h == NextHandle(pipeline_tasks, p_joined)
           t == pipeline_tasks[h]
       IN  /\ Finished(t)
           /\ IF JoinOutcome(t) = "insert"
              THEN /\ named_values' = MapInsert(named_values, t.output, t.cur)
                   /\ origin' = MapInsert(origin, t.output, Producer(stage, "P", h))
                   /\ p_joined' = p_joined + 1
                   /\ UNCHANGED <<pc, result>>
              ELSE /\ result' = ErrResult(t.err)
                   /\ pc' = "returned"
                   /\ UNCHANGED <<named_values, origin, p_joined>>
    /\ UNCHANGED <<stage, claimed, pipeline_tasks, junction_tasks, j_joined, spawned, ingestVars, qualityVars, searchVars, bundleVars>>

\* Every named pipeline of the stage has been joined: the join loop has
\* consumed pipeline_tasks.
EndJoinPipelines ==
    /\ pc = "join_pipelines"
    /\ AllJoined(pipeline_tasks, p_joined)
    /\ pipeline_tasks' = << >>
    /\ p_joined' = 0
    /\ pc' = "dispatch_junctions"
    /\ UNCHANGED <<stage, named_values, origin, claimed,
                   junction_tasks, j_joined, result, spawned, ingestVars, qualityVars, searchVars, bundleVars>>

\* `for junction in pipeline.junctions`: every input name is removed from
\* the store in turn and the task is spawned.
DispatchJunction(input_names, output_name) ==
    /\ pc = "dispatch_junctions"
    /\ Len(junction_tasks) < MaxJunctions
    /\ spawned < MaxTasks
    /\ spawned' = spawned + 1
    /\ LET popped == PopInputs(named_values, origin, input_names)
       IN  /\ junction_tasks' = Append(junction_tasks,
                  NewJunctionTask(input_names, output_name, popped.values, popped.from))
           /\ named_values' = popped.store
           /\ origin' = popped.origin
           /\ claimed' = claimed \cup (SeqRange(popped.from) \ {NoProducer})
    /\ UNCHANGED <<pc, stage, pipeline_tasks, p_joined, j_joined, result, ingestVars, qualityVars, searchVars, bundleVars>>

EndDispatchJunctions ==
    /\ pc = "dispatch_junctions"
    /\ pc' = "join_junctions"
    /\ UNCHANGED <<stage, named_values, origin, claimed, pipeline_tasks, p_joined,
                   junction_tasks, j_joined, result, spawned, ingestVars, qualityVars, searchVars, bundleVars>>

\* A spawned junction invokes its fan-in operation, which succeeds or fails.
JunctionExec(j, ok) ==
    /\ j \in 1..Len(junction_tasks)
    /\ junction_tasks[j].status = "running"
    /\ TaskMayRun(pc)
    /\ junction_tasks' = [junction_tasks EXCEPT
                             ![j] = [JunctionStep(junction_tasks[j], stage, j, ok)
                                        EXCEPT !.late = (pc = "returned")]]
    /\ UNCHANGED <<pc, stage, named_values, origin, claimed, pipeline_tasks,
                   p_joined, j_joined, result, spawned, ingestVars, qualityVars, searchVars, bundleVars>>

\* `for (output, handle) in junction_tasks`
JoinJunction ==
    /\ pc = "join_junctions"
    /\ j_joined < Len(junction_tasks)
    /\ LET h == NextHandle(junction_tasks, j_joined)
           t == junction_tasks[h]
       IN  /\ Finished(t)
           /\ IF JoinOutcome(t) = "insert"
              THEN /\ named_values' = MapInsert(named_values, t.output, t.val)
                   /\ origin' = MapInsert(origin, t.output, Producer(stage, "J", h))
                   /\ j_joined' = j_joined + 1
                   /\ UNCHANGED <<pc, result>>
              ELSE /\ result' = ErrResult(t.err)
                   /\ pc' = "returned"
                   /\ UNCHANGED <<named_values, origin, j_joined>>
    /\ UNCHANGED <<stage, claimed, pipeline_tasks, p_joined, junction_tasks, spawned, ingestVars, qualityVars, searchVars, bundleVars>>

\* Every junction of the stage has been joined: on to the next stage.
EndStage ==
    /\ pc = "join_junctions"
    /\ AllJoined(junction_tasks, j_joined)
    /\ junction_tasks' = << >>
    /\ j_joined' = 0
    /\ pc' = "stage_loop"
    /\ UNCHANGED <<stage, named_values, origin, claimed, pipeline_tasks, p_joined,
                   result, spawned, ingestVars, qualityVars, searchVars, bundleVars>>


\* After the last stage: the value under "result", or Void.
Finish ==
    /\ pc = "stage_loop"
    /\ result' = OkResult(MapGetOrVoid(named_values, ResultKey))
    /\ claimed' = IF OriginOf(origin, ResultKey) # NoProducer
                  THEN claimed \cup {OriginOf(origin, ResultKey)}
                  ELSE claimed
    /\ named_values' = MapRemove(named_values, ResultKey)
    /\ origin' = MapRemove(origin, ResultKey)
    /\ pc' = "returned"
    /\ UNCHANGED <<stage, pipeline_tasks, p_joined, junction_tasks, j_joined, spawned, ingestVars, qualityVars, searchVars, bundleVars>>

\* What run and its tasks do within the stages begun.
StageSteps ==
    \/ \E k \in Keys, out \in Keys, n \in 0..MaxCommands :
           \/ DispatchPipeline(SomeName(k), out, n)
           \/ DispatchPipeline(NoName, out, n)
    \/ EndDispatchPipelines
    \/ \E p \in 1..MaxPipelines, f \in 0..MaxCommands : PipelineRun(p, f)
    \/ JoinPipeline
    \/ EndJoinPipelines
    \/ \E names \in InputNameLists, out \in Keys : DispatchJunction(names, out)
    \/ EndDispatchJunctions
    \/ \E j \in 1..MaxJunctions, ok \in BOOLEAN : JunctionExec(j, ok)
    \/ JoinJunction
    \/ EndStage
    \/ Finish

Next ==
    \/ BeginStage
    \/ StageSteps

Spec == Init /\ [][Next]_vars

\* The runtime schedules fairly: a spawned task that can run is eventually
\* polled.  Nothing is assumed of run itself.
TaskFairness ==
    /\ \A p \in 1..MaxPipelines :
          WF_vars(\E f \in 0..MaxCommands : PipelineRun(p, f))
    /\ \A j \in 1..MaxJunctions :
          WF_vars(\E ok \in BOOLEAN : JunctionExec(j, ok))

\* The graphs of the fair specification have FairStages stages.
BeginStageFair ==
    /\ stage < FairStages
    /\ BeginStage

NextFair ==
    \/ BeginStageFair
    \/ StageSteps

SpecFairTasks == Init /\ [][NextFair]_vars /\ TaskFairness

\* run is itself a task of the runtime: it is polled whenever it can go on,
\* as is every task it spawned.
SpecFairRun == Init /\ [][NextFair]_vars /\ TaskFairness /\ WF_vars(NextFair)

\* ------------------------------------------------------------------------
\* FlattenedLineSpan and line contents
\* ------------------------------------------------------------------------
\* A string is a sequence of characters; NL is the newline character.
NL == 0

\* The content the mapping holds for a line: one character, distinct per
\* line and never a newline.
LineHtml(line) == <<line>>

\* The plain-text contents a span has before injection.
PlainText(key_line) == <<100 + key_line>>

\* [&str]::join("\n")
RECURSIVE JoinLines(_)
JoinLines(lines) ==
    IF lines = << >> THEN << >>
    ELSE IF Len(lines) = 1 THEN Head(lines)
    ELSE Head(lines) \o <<NL>> \o JoinLines(Tail(lines))

NewSpan(key_line, start, end) ==
    [key_line |-> key_line, line_range |-> <<start, end>>,
     contents |-> PlainText(key_line), context |-> "", contextsym |-> ""]

Max(a, b) == IF a >= b THEN a ELSE b

ExpandBeforeBothWaysMutant(span, b, a) ==
    <<Max(1, span.line_range[1] - b), span.line_range[2] + b>>

\* FlattenedLineSpan::expand_range_in_isolation
expand_range_in_isolation(span, b, a) ==
    <<Max(1, span.line_range[1] - b), span.line_range[2] + a>>

ClampStartNeverMutant(this_start, highest) == this_start

\* "adjust to avoid overlapping the prior span"
ClampStart(this_start, highest) ==
    IF this_start <= highest THEN highest + 1 ELSE this_start

ClampEndToNextStartMutant(this_end, spans, i) ==
    IF i < Len(spans) - 1
    THEN LET next_start == spans[i + 2].line_range[1]
         IN  IF this_end >= next_start THEN next_start ELSE this_end
    ELSE this_end

\* "avoid bumping into the next span if there is one"; i is the 0-based
\* index of the span.
ClampEnd(this_end, spans, i) ==
    IF i < Len(spans) - 1
    THEN LET next_start == spans[i + 2].line_range[1]
         IN  IF this_end >= next_start THEN next_start - 1 ELSE this_end
    ELSE this_end

\* `for line in this_start..=this_end`: the lines of the range that the
\* mapping has content for, in ascending order.
RECURSIVE FetchLines(_, _, _)
FetchLines(from, to, contents) ==
    IF from > to THEN << >>
    ELSE (IF from \in contents THEN <<from>> ELSE << >>)
         \o FetchLines(from + 1, to, contents)

RECURSIVE HtmlOf(_)
HtmlOf(fetched) ==
    IF fetched = << >> THEN << >>
    ELSE <<LineHtml(Head(fetched))>> \o HtmlOf(Tail(fetched))

RangeEndOffByOneMutant(this_start, count) == this_start + count

\* `this_start + (lines.len() - 1) as u32`, where the build does not check
\* arithmetic overflow: with no line fetched, the usize subtraction wraps to
\* usize::MAX, the cast keeps 2^32 - 1 and the u32 addition wraps again, to
\* this_start - 1 (this_start >= 1).
RangeEnd(this_start, count) == this_start + (count - 1)

NextHighestOffByOneMutant(highest, this_end) == this_end + 1

\* `highest_line = this_end`
NextHighest(highest, this_end) == this_end

\* ------------------------------------------------------------------------
\* FlattenedResultsByFile::ingest_html_lines
\* ------------------------------------------------------------------------
SpanChoices ==
    {NewSpan(k, s, e) : <<k, s, e>> \in
        {x \in (1..MaxLine) \X (1..MaxLine) \X (1..MaxLine) :
            x[2] <= x[3] /\ x[1] \in {x[2], x[3]}}}

SpanLists == UNION {[1..n -> SpanChoices] : n \in 0..MaxSpans}

\* Two inputs beyond the bounds: adjacent spans with five lines of context
\* and distant spans with three, in a file of thirty lines.
ExampleInputs ==
    {[spans |-> <<NewSpan(10, 10, 10), NewSpan(11, 11, 11)>>,
      before |-> 5, after |-> 5, contents |-> 1..30],
     [spans |-> <<NewSpan(10, 10, 10), NewSpan(20, 20, 20)>>,
      before |-> 3, after |-> 3, contents |-> 1..30]}

IngestInit ==
    /\ ipc = "start"
    /\ \/ /\ present \in BOOLEAN
          /\ file_contents \in IF present THEN SUBSET (1..(MaxLine + MaxContext))
                                          ELSE {{}}
          /\ before \in 0..MaxContext
          /\ after \in 0..MaxContext
          /\ orig_spans \in SpanLists
       \/ \E ex \in ExampleInputs :
             /\ present = TRUE
             /\ file_contents = ex.contents
             /\ before = ex.before
             /\ after = ex.after
             /\ orig_spans = ex.spans
    /\ line_spans = orig_spans
    /\ i_span = 0
    /\ highest_line = 0
    /\ clamped = << >>
    /\ runs = 1
    /\ looked_up = {}

\* The scheduler is not running in the specification of ingest_html_lines.
GraphIdle ==
    /\ pc = "idle"
    /\ stage = 0
    /\ named_values = EmptyMap
    /\ origin = EmptyMap
    /\ claimed = {}
    /\ pipeline_tasks = << >>
    /\ p_joined = 0
    /\ junction_tasks = << >>
    /\ j_joined = 0
    /\ result = NoResult
    /\ spawned = 0

InitIngest == IngestInit /\ GraphIdle /\ QualityIdle /\ SearchIdle /\ BundleIdle

LookupFileOrEmptyMutant(found) == "loop"

\* `if let Some(file_contents) = path_line_contents.get(&self.file)`: where
\* ingest_html_lines goes on, the file being a key of the mapping or not.
LookupFile(found) == IF found THEN "loop" ELSE "done"

IngestBegin ==
    /\ ipc = "start"
    /\ ipc' = LookupFile(present)
    /\ highest_line' = 0
    /\ i_span' = 0
    /\ UNCHANGED <<present, file_contents, before, after, orig_spans, line_spans,
                   clamped, runs, looked_up, graphVars, qualityVars, searchVars, bundleVars>>

\* One iteration of `for i_span in 0..self.line_spans.len()`.  With no
\* line fetched, `lines.len() - 1` underflows: the build either panics
\* there or wraps.
IngestSpan(checked) ==
    /\ ipc = "loop"
    /\ i_span < Len(line_spans)
    /\ LET isolated == expand_range_in_isolation(line_spans[i_span + 1], before, after)
           this_start == ClampStart(isolated[1], highest_line)
           this_end == ClampEnd(isolated[2], line_spans, i_span)
           fetched == FetchLines(this_start, this_end, file_contents)
           lines == HtmlOf(fetched)
       IN  /\ looked_up' = looked_up \cup (this_start..this_end)
           /\ IF Len(lines) = 0 /\ checked
              THEN /\ ipc' = "panicked"
                   /\ UNCHANGED <<line_spans, i_span, highest_line, clamped>>
              ELSE /\ line_spans' = [line_spans EXCEPT
                          ![i_span + 1].line_range =
                              <<this_start, RangeEnd(this_start, Len(lines))>>,
                          ![i_span + 1].contents = JoinLines(lines)]
                   /\ highest_line' = NextHighest(highest_line, this_end)
                   /\ clamped' = Append(clamped,
                          [start |-> this_start, end |-> this_end, fetched |-> fetched])
                   /\ i_span' = i_span + 1
                   /\ UNCHANGED ipc
    /\ UNCHANGED <<present, file_contents, before, after, orig_spans, runs, graphVars, qualityVars, searchVars, bundleVars>>

\* The loop is over: ingest_html_lines returns.
IngestEnd ==
    /\ ipc = "loop"
    /\ i_span = Len(line_spans)
    /\ ipc' = "done"
    /\ UNCHANGED <<present, file_contents, before, after, orig_spans, line_spans,
                   i_span, highest_line, clamped, runs, looked_up, graphVars,
                   qualityVars, searchVars, bundleVars>>

NextIngest ==
    \/ IngestBegin
    \/ \E checked \in BOOLEAN : IngestSpan(checked)
    \/ IngestEnd

SpecIngest == InitIngest /\ [][NextIngest]_vars

\* ingest_html_lines is applied again, with the same mapping and the same
\* before/after, to the spans it has rewritten.
IngestAgain ==
    /\ ipc = "done"
    /\ runs < MaxRuns
    /\ ipc' = "start"
    /\ runs' = runs + 1
    /\ orig_spans' = line_spans
    /\ clamped' = << >>
    /\ looked_up' = {}
    /\ UNCHANGED <<present, file_contents, before, after, line_spans, i_span,
                   highest_line, graphVars, qualityVars, searchVars, bundleVars>>

NextRerun ==
    \/ NextIngest
    \/ IngestAgain

SpecRerun == InitIngest /\ [][NextRerun]_vars

\* ------------------------------------------------------------------------
\* FlattenedResultsBundle: compute_path_line_sets, then ingest_html_lines
\* ------------------------------------------------------------------------
Files == {"f", "g"}

\* The spans and span lists of the per-file groups of a bundle.
BundleSpanChoices ==
    {NewSpan(x[1], x[1], x[2]) : x \in
        {y \in (1..MaxBundleLine) \X (1..MaxBundleLine) : y[1] <= y[2]}}

BundleSpanLists == UNION {[1..n -> BundleSpanChoices] : n \in 0..MaxBundleSpans}

\* The number of spans of a bundle.
RECURSIVE SpanCount(_)
SpanCount(groups) ==
    IF groups = << >> THEN 0
    ELSE Len(Head(groups).line_spans) + SpanCount(Tail(groups))

\* A FlattenedResultsByFile with the position of its path-kind group in
\* path_kind_results and of its kind group in kind_groups: the nested loops
\* of the bundle go through the per-file groups in the order of (group,
\* kind_group).
NewByFile(group, kind_group, file, spans) ==
    [group |-> group, kind_group |-> kind_group, file |-> file, line_spans |-> spans]

\* The lines of file a content mapping may hold: all of them, or none.
AllLines == 1..(MaxBundleLine + MaxContext)
ContentMappings ==
    UNION {[X -> {AllLines, {}}] : X \in SUBSET Files}

\* for line in range.0..=range.1 { line_set.insert(line) }, over the spans
RECURSIVE ExpandedLines(_, _, _)
ExpandedLines(spans, b, a) ==
    IF spans = << >> THEN {}
    ELSE LET range == expand_range_in_isolation(Head(spans), b, a)
         IN  (range[1]..range[2]) \cup ExpandedLines(Tail(spans), b, a)

AccumulateReplacesMutant(sets, by_file, b, a) ==
    [k \in DOMAIN sets \cup {by_file.file} |->
        IF k = by_file.file THEN ExpandedLines(by_file.line_spans, b, a)
        ELSE sets[k]]

\* FlattenedResultsByFile::accumulate_path_line_sets: the set of the file
\* is created empty when the map has none, and the expanded lines of every
\* span are added to it.
accumulate_path_line_sets(sets, by_file, b, a) ==
    LET line_set == IF by_file.file \in DOMAIN sets THEN sets[by_file.file] ELSE {}
    IN  [k \in DOMAIN sets \cup {by_file.file} |->
            IF k = by_file.file
            THEN line_set \cup ExpandedLines(by_file.line_spans, b, a)
            ELSE sets[k]]

InitBundle ==
    /\ bpc = "compute"
    /\ bundle = << >>
    /\ orig_bundle = << >>
    /\ b_idx = 0
    /\ content_type = "text/plain"
    /\ path_line_contents \in ContentMappings
    /\ path_line_sets = EmptyMap
    /\ lookups = EmptyMap
    /\ ipc = "idle"
    /\ present = FALSE
    /\ file_contents = {}
    /\ before \in 0..MaxContext
    /\ after \in 0..MaxContext
    /\ orig_spans = << >>
    /\ line_spans = << >>
    /\ i_span = 0
    /\ highest_line = 0
    /\ clamped = << >>
    /\ runs = 0
    /\ looked_up = {}
    /\ GraphIdle /\ QualityIdle /\ SearchIdle

\* compute_path_line_sets reaches the next per-file group of the bundle
\* (the loops of lines 257, 298 and 375) and accumulates its lines.
AccumulateByFile(group, kind_group, file, spans) ==
    /\ bpc = "compute"
    /\ Len(bundle) < MaxByFile
    /\ SpanCount(bundle) + Len(spans) <= MaxBundleSpans
    /\ bundle # << >> =>
          LET last == bundle[Len(bundle)]
          IN  \/ last.group < group
              \/ last.group = group /\ last.kind_group <= kind_group
    /\ LET by_file == NewByFile(group, kind_group, file, spans)
       IN  /\ bundle' = Append(bundle, by_file)
           /\ orig_bundle' = Append(orig_bundle, by_file)
           /\ path_line_sets' = accumulate_path_line_sets(path_line_sets, by_file,
                                                          before, after)
    /\ UNCHANGED <<bpc, b_idx, content_type, path_line_contents, lookups,
                   graphVars, ingestVars, qualityVars, searchVars>>

\* compute_path_line_sets returns path_line_sets.
ComputeReturn ==
    /\ bpc = "compute"
    /\ bpc' = "computed"
    /\ UNCHANGED <<bundle, orig_bundle, b_idx, content_type, path_line_contents,
                   path_line_sets, lookups,
                   graphVars, ingestVars, qualityVars, searchVars>>

\* FlattenedResultsBundle::ingest_html_lines is called with the same
\* before/after: `self.content_type = "text/html".to_string()`.
BundleIngestBegin ==
    /\ bpc = "computed"
    /\ bpc' = "ingest"
    /\ content_type' = "text/html"
    /\ b_idx' = 0
    /\ UNCHANGED <<bundle, orig_bundle, path_line_contents, path_line_sets, lookups,
                   graphVars, ingestVars, qualityVars, searchVars>>

\* The loops of lines 270, 309 and 386 reach the next per-file group and
\* call its ingest_html_lines.
IngestCall ==
    /\ bpc = "ingest"
    /\ ipc = "idle"
    /\ b_idx < Len(bundle)
    /\ LET by_file == bundle[b_idx + 1]
       IN  /\ present' = (by_file.file \in DOMAIN path_line_contents)
           /\ file_contents' = IF by_file.file \in DOMAIN path_line_contents
                               THEN path_line_contents[by_file.file] ELSE {}
           /\ orig_spans' = by_file.line_spans
           /\ line_spans' = by_file.line_spans
    /\ ipc' = "start"
    /\ i_span' = 0
    /\ highest_line' = 0
    /\ clamped' = << >>
    /\ looked_up' = {}
    /\ runs' = 1
    /\ UNCHANGED <<before, after, graphVars, qualityVars, searchVars, bundleVars>>

\* The per-file ingest_html_lines has returned: its spans are those of the
\* bundle (it works on them in place).
IngestReturn ==
    /\ bpc = "ingest"
    /\ ipc = "done"
    /\ LET file == bundle[b_idx + 1].file
       IN  /\ bundle' = [bundle EXCEPT ![b_idx + 1].line_spans = line_spans]
           /\ lookups' = [k \in DOMAIN lookups \cup {file} |->
                            (IF k \in DOMAIN lookups THEN lookups[k] ELSE {})
                               \cup (IF k = file THEN looked_up ELSE {})]
    /\ b_idx' = b_idx + 1
    /\ ipc' = "idle"
    /\ UNCHANGED <<bpc, orig_bundle, content_type, path_line_contents, path_line_sets,
                   present, file_contents, before, after, orig_spans, line_spans,
                   i_span, highest_line, clamped, runs, looked_up,
                   graphVars, qualityVars, searchVars>>

\* FlattenedResultsBundle::ingest_html_lines returns.
BundleIngestEnd ==
    /\ bpc = "ingest"
    /\ ipc = "idle"
    /\ b_idx = Len(bundle)
    /\ bpc' = "done"
    /\ UNCHANGED <<bundle, orig_bundle, b_idx, content_type, path_line_contents,
                   path_line_sets, lookups,
                   graphVars, ingestVars, qualityVars, searchVars>>

NextBundle ==
    \/ \E group \in 1..MaxPathKindGroups, kind_group \in 1..MaxKindGroups,
          file \in Files, spans \in BundleSpanLists :
             AccumulateByFile(group, kind_group, file, spans)
    \/ ComputeReturn
    \/ BundleIngestBegin
    \/ IngestCall
    \/ NextIngest
    \/ IngestReturn
    \/ BundleIngestEnd

SpecBundle == InitBundle /\ [][NextBundle]_vars

\* ------------------------------------------------------------------------
\* Comparing two SymbolQuality values
\* ------------------------------------------------------------------------
InitQuality ==
    /\ qpc = "start"
    /\ q1 \in SymbolQualities
    /\ q2 \in SymbolQualities
    /\ q_lt = FALSE
    /\ q_cmp = "none"
    /\ q_eq = FALSE
    /\ GraphIdle /\ IngestIdle /\ SearchIdle /\ BundleIdle

\* q1 < q2, q1.cmp(&q2) and q1 == q2 are evaluated.
QualityCompare ==
    /\ qpc = "start"
    /\ q_lt' = lt(q1, q2)
    /\ q_cmp' = cmp(q1, q2)
    /\ q_eq' = eq(q1, q2)
    /\ qpc' = "done"
    /\ UNCHANGED <<q1, q2, graphVars, ingestVars, searchVars, bundleVars>>

NextQuality == QualityCompare

SpecQuality == InitQuality /\ [][NextQuality]_vars

\* ------------------------------------------------------------------------
\* SearchTextCommand::execute
\* ------------------------------------------------------------------------
InitSearch ==
    /\ spc = "start"
    /\ args \in [text : OptionStrings, re : OptionStrings,
                 path : OptionStrings, pathre : OptionStrings,
                 case_sensitive : BOOLEAN, limit : 0..MaxLimit]
    /\ backend_calls = << >>
    /\ sresult = NoSearchResult
    /\ GraphIdle /\ IngestIdle /\ QualityIdle /\ BundleIdle

\* `let re_pattern = if let Some(re) ... else if let Some(text) ... else
\* return Err(...)`: None stands for the early return.
RePattern(a) ==
    IF a.re # None THEN Some(a.re[1])
    ELSE IF a.text # None THEN Some(RegexEscape(a.text[1]))
    ELSE None

\* `let pathre_pattern = ...`
PathrePattern(a) ==
    IF a.pathre # None THEN a.pathre[1]
    ELSE IF a.path # None THEN path_glob_transform(a.path[1])
    ELSE << >>

\* execute up to its suspension at `server.search_text(...).await`, or to
\* the early return.
SearchExecute ==
    /\ spc = "start"
    /\ IF RePattern(args) = None
       THEN /\ sresult' = BadInputError
            /\ spc' = "done"
            /\ UNCHANGED backend_calls
       ELSE /\ backend_calls' = Append(backend_calls,
                   [pattern |-> RePattern(args)[1],
                    fold_case |-> ~args.case_sensitive,
                    path |-> PathrePattern(args),
                    limit |-> args.limit])
            /\ spc' = "awaiting"
            /\ UNCHANGED sresult
    /\ UNCHANGED <<args, graphVars, ingestVars, qualityVars, bundleVars>>

\* The backend answers: `.await?` propagates its error, otherwise execute
\* returns Ok(PipelineValues::TextMatches(matches)).
SearchReply(ok) ==
    /\ spc = "awaiting"
    /\ sresult' = IF ok THEN TextMatches(backend_calls[Len(backend_calls)])
                        ELSE BackendError
    /\ spc' = "done"
    /\ UNCHANGED <<args, backend_calls, graphVars, ingestVars, qualityVars, bundleVars>>

NextSearch ==
    \/ SearchExecute
    \/ \E ok \in BOOLEAN : SearchReply(ok)

SpecSearch == InitSearch /\ [][NextSearch]_vars

\* ========================================================================
\* Properties of the pipeline graph scheduler (specification Spec)
\* ========================================================================
\* Is the output of named pipeline o of the current stage in the store.
PipelineInserted(o) ==
    \E k \in DOMAIN origin : origin[k] = Producer(stage, "P", o)

\* run has returned from a stage of two named pipelines of which f has
\* failed and o has not.
C1_Case(f, o) ==
    /\ pc = "returned"
    /\ Len(pipeline_tasks) = 2
    /\ pipeline_tasks[f].status = "err"
    /\ pipeline_tasks[o].status # "err"

AllTasks == SeqRange(pipeline_tasks) \cup SeqRange(junction_tasks)

PipelineSlots ==
    {[kind |-> "P", task |-> p, pos |-> 1,
      key |-> pipeline_tasks[p].input_name[1],
      from |-> pipeline_tasks[p].from,
      val |-> pipeline_tasks[p].input] :
        p \in {q \in 1..Len(pipeline_tasks) : pipeline_tasks[q].input_name # NoName}}

JunctionSlots ==
    UNION {{[kind |-> "J", task |-> j, pos |-> i,
             key |-> junction_tasks[j].input_names[i],
             from |-> junction_tasks[j].from[i],
             val |-> junction_tasks[j].input_values[i]] :
                i \in 1..Len(junction_tasks[j].input_names)} :
           j \in 1..Len(junction_tasks)}

ReaderSlots == PipelineSlots \cup JunctionSlots

ClaimOnRead ==
    \* no entry still in the store was ever handed to a reader
    /\ \A k \in DOMAIN origin : origin[k] \notin claimed
    \* no two reader slots were handed the same entry
    /\ \A a \in ReaderSlots : \A b \in ReaderSlots \ {a} :
           a.from # NoProducer => a.from # b.from
    \* of the slots of one dispatch loop that name the same key at most one
    \* was handed an entry
    /\ \A a \in ReaderSlots : \A b \in ReaderSlots \ {a} :
           (a.kind = b.kind /\ a.key = b.key) =>
               (a.from = NoProducer \/ b.from = NoProducer)
    \* the slots that were handed no entry hold Void
    /\ \A a \in ReaderSlots : a.from = NoProducer => a.val = Void

\* A step of a running task, not of run itself.
TaskStepOnly ==
    /\ pc' = pc
    /\ p_joined' = p_joined
    /\ j_joined' = j_joined
    /\ Len(pipeline_tasks') = Len(pipeline_tasks)
    /\ Len(junction_tasks') = Len(junction_tasks)

\* C3: every entry of the store is handed to at most one reader; of the
\* named pipelines, or junction input slots, of a stage that name the same
\* key at most one receives the stored value and the others receive Void;
\* only run itself, never a running task, reads or writes the store.
C3_ClaimOnRead ==
    /\ []ClaimOnRead
    /\ [][TaskStepOnly => (named_values' = named_values /\ origin' = origin)]_vars

\* Two named pipelines of a stage name the same key: the first was handed
\* the stored entry and the second Void.
C3_Witness ==
    /\ Len(pipeline_tasks) = 2
    /\ pipeline_tasks[1].input_name # NoName
    /\ pipeline_tasks[1].input_name = pipeline_tasks[2].input_name
    /\ pipeline_tasks[1].from # NoProducer
    /\ pipeline_tasks[1].input # Void
    /\ pipeline_tasks[2].from = NoProducer
    /\ pipeline_tasks[2].input = Void

\* One junction lists a key twice: its first slot was handed the stored
\* entry and its second slot Void.
C3_WitnessJunction ==
    \E j \in 1..Len(junction_tasks) :
        /\ Len(junction_tasks[j].input_names) = 2
        /\ junction_tasks[j].input_names[1] = junction_tasks[j].input_names[2]
        /\ junction_tasks[j].from[1] # NoProducer
        /\ junction_tasks[j].input_values[1] # Void
        /\ junction_tasks[j].input_values[2] = Void

\* C4: a named pipeline whose declared input key is absent from the store
\* at dispatch, or that declares no input key, starts from Void; the
\* dispatch leaves the store as it is and raises no error.
C4_MissingInputIsVoid ==
    [][ Len(pipeline_tasks') = Len(pipeline_tasks) + 1 =>
          LET t == pipeline_tasks'[Len(pipeline_tasks')]
              missing == IF t.input_name = NoName THEN TRUE
                         ELSE t.input_name[1] \notin DOMAIN named_values
          IN  missing =>
                /\ t.input = Void
                /\ t.cur = Void
                /\ t.status = "running"
                /\ named_values' = named_values
                /\ result' = NoResult
                /\ pc' = pc ]_vars

\* A named pipeline was dispatched on a key that an earlier reader had
\* consumed, and one was dispatched with no input key while the store was
\* not empty.
C4_Witness ==
    /\ Len(pipeline_tasks) = 2
    /\ pipeline_tasks[1].from # NoProducer
    /\ pipeline_tasks[2].input_name = pipeline_tasks[1].input_name
    /\ pipeline_tasks[2].input = Void

C4_WitnessNoInput ==
    /\ Len(pipeline_tasks) >= 1
    /\ pipeline_tasks[1].input_name = NoName
    /\ pipeline_tasks[1].input = Void
    /\ DOMAIN named_values # {}

\* C5: when every stage completes without failure run returns the value
\* stored under "result" after the last stage, Void when there is none;
\* what is stored under other keys is not returned.
C5_ReturnsResultKey ==
    [][ (result.kind = "none" /\ result'.kind = "ok") =>
           /\ pc = "stage_loop"
           /\ pc' = "returned"
           /\ pipeline_tasks = << >>
           /\ junction_tasks = << >>
           /\ result'.val = IF "result" \in DOMAIN named_values
                            THEN named_values["result"] ELSE Void ]_vars

\* run returned the value of "result" while another key was left in the
\* store.
C5_Witness ==
    /\ pc = "returned"
    /\ result.kind = "ok"
    /\ result.val # Void
    /\ "a" \in DOMAIN named_values
    /\ named_values["a"] # result.val

\* The producers an entry handed to a reader of the current stage may have:
\* a named pipeline reads only what earlier stages produced; a junction
\* reads that and what the named pipelines of its own stage produced.
ReadsAllowed(slot) ==
    slot.from # NoProducer =>
        \/ slot.from[1] < stage
        \/ slot.kind = "J" /\ slot.from[1] = stage /\ slot.from[2] = "P"

StageOrderState ==
    \* junctions exist only once the join loop has consumed every named
    \* pipeline of the stage
    /\ junction_tasks # << >> => pipeline_tasks = << >>
    /\ pc \in {"dispatch_junctions", "join_junctions"} => pipeline_tasks = << >>
    \* named pipelines are dispatched only once the previous stage's
    \* junctions have been consumed
    /\ pc \in {"stage_loop", "dispatch_pipelines"} => junction_tasks = << >>
    /\ pipeline_tasks # << >> => junction_tasks = << >>
    /\ \A slot \in ReaderSlots : ReadsAllowed(slot)

StageOrderStep ==
    \* the join loop of the named pipelines is left only when each of them
    \* has completed successfully and its output has been inserted
    /\ (pc = "join_pipelines" /\ pc' = "dispatch_junctions") =>
          /\ p_joined = Len(pipeline_tasks)
          /\ \A i \in 1..Len(pipeline_tasks) : pipeline_tasks[i].status = "ok"
    \* and likewise the stage is left only when each junction has
    /\ (pc = "join_junctions" /\ pc' = "stage_loop") =>
          /\ j_joined = Len(junction_tasks)
          /\ \A i \in 1..Len(junction_tasks) : junction_tasks[i].status = "ok"
    /\ stage' # stage => (pc = "stage_loop" /\ stage' = stage + 1)
    \* an insertion is the output of a task that completed successfully
    /\ p_joined' = p_joined + 1 =>
          /\ pipeline_tasks[p_joined + 1].status = "ok"
          /\ named_values'[pipeline_tasks[p_joined + 1].output]
                = pipeline_tasks[p_joined + 1].cur
    /\ j_joined' = j_joined + 1 =>
          /\ junction_tasks[j_joined + 1].status = "ok"
          /\ named_values'[junction_tasks[j_joined + 1].output]
                = junction_tasks[j_joined + 1].val

\* C6: no junction of a stage is dispatched before every named pipeline of
\* the stage has completed successfully and had its output inserted, and no
\* named pipeline of the next stage before every junction of the stage has;
\* so a junction may read the outputs of the pipelines of its own stage,
\* a pipeline reads no output of its own stage and a junction reads no
\* output of a sibling junction.
C6_StageOrder ==
    /\ []StageOrderState
    /\ [][StageOrderStep]_vars

\* A junction was handed the output of a named pipeline of its own stage,
\* and a named pipeline of the second stage the output of a junction of the
\* first.
C6_Witness ==
    \E slot \in JunctionSlots :
        /\ slot.from # NoProducer
        /\ slot.from[1] = stage
        /\ slot.from[2] = "P"
        /\ slot.val # Void

C6_WitnessNextStage ==
    \E slot \in PipelineSlots :
        /\ slot.from # NoProducer
        /\ slot.from[1] = stage - 1
        /\ slot.from[2] = "J"

\* C7: a named pipeline executes its commands in list order, the first on
\* the initial value and each later one on the output of its predecessor;
\* when a command fails no later command is executed and the task ends
\* with that error; when all succeed the task ends with the last output,
\* which is the initial value when the list is empty.
C7_PipelineRun ==
    \A p \in 1..Len(pipeline_tasks) :
        LET t == pipeline_tasks[p]
            n == Len(t.log)
        IN  /\ n <= t.ncmds
            /\ \A k \in 1..n : t.log[k].cmd = k
            /\ n >= 1 => t.log[1].input = t.input
            /\ \A k \in 1..(n - 1) :
                   t.log[k + 1].input
                      = CommandOutput(CmdId(stage, p, k), t.log[k].input)
            /\ t.status = "running" => n = 0
            /\ t.status = "err" =>
                   /\ n >= 1
                   /\ t.err = CmdId(stage, p, n)
            /\ t.status = "ok" =>
                   /\ n = t.ncmds
                   /\ t.cur = IF n = 0 THEN t.input
                              ELSE CommandOutput(CmdId(stage, p, n), t.log[n].input)

\* A pipeline of two commands failed at its first command, the second was
\* never executed; another ran both.
C7_Witness ==
    \E p \in 1..Len(pipeline_tasks) :
        /\ pipeline_tasks[p].ncmds = 2
        /\ pipeline_tasks[p].status = "err"
        /\ Len(pipeline_tasks[p].log) = 1
        /\ pipeline_tasks[p].input # Void

C7_WitnessOk ==
    \E p \in 1..Len(pipeline_tasks) :
        /\ pipeline_tasks[p].ncmds = 2
        /\ pipeline_tasks[p].status = "ok"
        /\ pipeline_tasks[p].input # Void

JunctionState ==
    \A j \in 1..Len(junction_tasks) :
        LET t == junction_tasks[j]
        IN  /\ Len(t.input_values) = Len(t.input_names)
            /\ t.calls <= 1
            /\ t.status = "running" => t.calls = 0
            /\ t.status # "running" =>
                   /\ t.calls = 1
                   /\ t.seen = t.input_values
            /\ t.status = "ok" =>
                   t.val = JunctionOutput(JunctionId(stage, j), t.input_values)
            /\ t.status = "err" => t.err = JunctionId(stage, j)

JunctionSteps ==
    \* dispatch: the i-th input is what the store holds under the i-th name
    \* once the earlier names have been removed
    /\ Len(junction_tasks') = Len(junction_tasks) + 1 =>
          LET t == junction_tasks'[Len(junction_tasks')]
              names == t.input_names
          IN  /\ \A i \in 1..Len(names) :
                    t.input_values[i] =
                       IF /\ names[i] \in DOMAIN named_values
                          /\ \A h \in 1..(i - 1) : names[h] # names[i]
                       THEN named_values[names[i]] ELSE Void
              /\ DOMAIN named_values' = DOMAIN named_values \ SeqRange(names)
    \* join: the output is inserted, or the error returned, unchanged
    /\ j_joined' = j_joined + 1 =>
          named_values'[junction_tasks[j_joined + 1].output]
             = JunctionOutput(JunctionId(stage, j_joined + 1),
                              junction_tasks[j_joined + 1].seen)
    /\ (pc = "join_junctions" /\ pc' = "returned") =>
          result' = ErrResult(JunctionId(stage, j_joined + 1))

\* C8: the fan-in operation of a junction is invoked exactly once, with as
\* many inputs as the junction has input names, the i-th being the value
\* popped from the store for the i-th name (Void when missing); its output
\* or error is passed on unchanged.
C8_JunctionRun ==
    /\ []JunctionState
    /\ [][JunctionSteps]_vars

\* A junction with two input names ran on a stored value and a Void.
C8_Witness ==
    \E j \in 1..Len(junction_tasks) :
        /\ Len(junction_tasks[j].input_names) = 2
        /\ junction_tasks[j].status = "ok"
        /\ junction_tasks[j].input_names[1] # junction_tasks[j].input_names[2]
        /\ junction_tasks[j].input_values[1] = Void
        /\ junction_tasks[j].input_values[2] # Void

\* ========================================================================
\* Properties of ingest_html_lines (specification SpecIngest)
\* ========================================================================
\* The spans are listed in ascending order of their line_range start.
AscendingSpans(spans) ==
    \A i \in 1..Len(spans) : \A j \in (i + 1)..Len(spans) :
        spans[i].line_range[1] <= spans[j].line_range[1]

\* The lines shown by a span: the characters of its contents but the
\* newlines (LineHtml(l) is the character l).
LinesShown(span) == SeqRange(span.contents) \ {NL}

Min(S) == CHOOSE m \in S : \A x \in S : m <= x

\* The lines of S in ascending order, joined with newlines.
RECURSIVE JoinedAscending(_)
JoinedAscending(S) ==
    IF S = {} THEN << >>
    ELSE IF Cardinality(S) = 1 THEN LineHtml(Min(S))
    ELSE LineHtml(Min(S)) \o <<NL>> \o JoinedAscending(S \ {Min(S)})

ShownSeq(span) == SelectSeq(span.contents, LAMBDA c : c # NL)

\* The lines of its line_range are exactly the lines of its contents: the
\* k-th line of the contents is the content of line start + k.
RangeMatchesContents(span) ==
    LET shown == ShownSeq(span)
    IN  /\ Len(shown) = span.line_range[2] - span.line_range[1] + 1
        /\ \A k \in 1..Len(shown) : shown[k] = span.line_range[1] + (k - 1)

\* C11, as stated: for every span processed the lines of the final
\* line_range are exactly the lines of the contents, whichever lines of the
\* clamped range the mapping lacks.
C11_Original ==
    \A i \in 1..Len(clamped) : RangeMatchesContents(line_spans[i])

\* The lines of the clamped range that the mapping lacks are trailing ones.
OnlyTrailingMissing(c) ==
    \A l \in c.start..c.end : l \in file_contents =>
        \A h \in c.start..l : h \in file_contents

\* C11, amended: for every span processed whose clamped range lacks only
\* trailing lines in the mapping, the lines of the final line_range are
\* exactly the lines of the contents; a missing leading or middle line
\* leaves a range that is shorter than, and shifted against, the contents.
C11_Amended ==
    \A i \in 1..Len(clamped) :
        OnlyTrailingMissing(clamped[i]) => RangeMatchesContents(line_spans[i])

\* A span was processed whose clamped range has two lines and then lacks
\* trailing ones.
C11_Witness ==
    \E i \in 1..Len(clamped) :
        /\ OnlyTrailingMissing(clamped[i])
        /\ Len(clamped[i].fetched) >= 2
        /\ Len(clamped[i].fetched) < clamped[i].end - clamped[i].start + 1

AdjacentExample == <<NewSpan(10, 10, 10), NewSpan(11, 11, 11)>>

DistantExample == <<NewSpan(10, 10, 10), NewSpan(20, 20, 20)>>

\* Consecutive spans are so far apart that their expanded ranges do not
\* meet, and the mapping has every line of the expanded ranges.
FarApartAndAvailable ==
    /\ present
    /\ \A i \in 1..(Len(orig_spans) - 1) :
          orig_spans[i].line_range[2] + after
             < orig_spans[i + 1].line_range[1] - before
    /\ \A i \in 1..Len(orig_spans) :
          \A l \in (orig_spans[i].line_range[1] - before)
                      ..(orig_spans[i].line_range[2] + after) :
              l >= 1 => l \in file_contents

C13_WitnessBounded ==
    /\ ipc = "done"
    /\ FarApartAndAvailable
    /\ Len(orig_spans) = 2
    /\ before + after >= 1
    /\ orig_spans # DistantExample

\* C14: when the file is absent from the mapping ingest_html_lines leaves
\* every span of the file as it was: key_line, line_range, contents,
\* context and contextsym.
C14_AbsentFileUntouched ==
    ~present =>
        /\ line_spans = orig_spans
        /\ ipc \in {"start", "done"}

\* ingest_html_lines returned on an absent file with spans and context.
C14_Witness ==
    /\ ~present
    /\ ipc = "done"
    /\ Len(line_spans) >= 2
    /\ before >= 1
    /\ after >= 1

\* C15: a second application of ingest_html_lines, with the same mapping
\* and the same before/after, to spans a first application has rewritten
\* completes without a panic or arithmetic error.
C15_RerunDoesNotThrow ==
    runs >= 2 => ipc # "panicked"

\* The spans are listed in ascending key-line order.
KeyLineAscending ==
    \A i \in 1..(Len(orig_spans) - 1) :
        orig_spans[i].key_line < orig_spans[i + 1].key_line

\* The greatest clamped end of the spans processed so far.
MaxClampedEnd ==
    CHOOSE m \in {clamped[i].end : i \in 1..Len(clamped)} :
        \A i \in 1..Len(clamped) : clamped[i].end <= m

\* C20: after each span of a file (spans in ascending key-line order) is
\* processed, highest_line is the maximum clamped end over the spans
\* processed so far.
C20_HighestIsMax ==
    (KeyLineAscending /\ ipc \in {"loop", "done"} /\ Len(clamped) >= 1) =>
        highest_line = MaxClampedEnd

\* The rank of a quality as the ordering is documented: 0, 1, 2 and
\* 2 + extra.
DocumentedRank(q) ==
    IF q.tag = "ExplicitSymbol" THEN 0
    ELSE IF q.tag = "ExplicitIdentifier" THEN 1
    ELSE IF q.tag = "ExactIdentifier" THEN 2
    ELSE 2 + q.extra

\* C16: q1 < q2 exactly when the rank of q1 is below the rank of q2, with
\* the ranks 0, 1, 2 and 2 + extra; ExactIdentifier is strictly less than
\* every IdentifierPrefix, and IdentifierPrefix(_, 1) strictly less than
\* IdentifierPrefix(_, 2).
C16_OrderByRank ==
    qpc = "done" =>
        /\ q_lt <=> (DocumentedRank(q1) < DocumentedRank(q2))
        /\ (q_cmp = "Less") <=> q_lt
        /\ (q1.tag = "ExactIdentifier" /\ q2.tag = "IdentifierPrefix") =>
              q_lt /\ q_cmp = "Less"
        /\ (q1.tag = "IdentifierPrefix" /\ q1.extra = 1
              /\ q2.tag = "IdentifierPrefix" /\ q2.extra = 2) =>
              q_lt /\ q_cmp = "Less"

\* A prefix match with one extra character was compared with one with two
\* extra characters and fewer matched ones.
C16_Witness ==
    /\ qpc = "done"
    /\ q1 = IdentifierPrefix(2, 1)
    /\ q2 = IdentifierPrefix(1, 2)
    /\ q_lt

\* ExactIdentifier was compared with a prefix match.
C16_WitnessExact ==
    /\ qpc = "done"
    /\ q1 = ExactIdentifier
    /\ q2.tag = "IdentifierPrefix"
    /\ q_cmp = "Less"

\* C17: a SearchTextCommand with both `text` and `re` is rejected: execute
\* returns an error and the backend receives no search_text call; with
\* neither, execute returns a BadInput error, again without a call.
C17_ReExcludesText ==
    /\ (args.text # None /\ args.re # None) =>
          /\ backend_calls = << >>
          /\ spc \in {"start", "done"}
          /\ spc = "done" => sresult.kind = "Err"
    /\ (args.text = None /\ args.re = None) =>
          /\ backend_calls = << >>
          /\ spc \in {"start", "done"}
          /\ spc = "done" => sresult = BadInputError

PipelineFailed == \E p \in 1..Len(pipeline_tasks) : pipeline_tasks[p].status = "err"
JunctionFailed == \E j \in 1..Len(junction_tasks) : junction_tasks[j].status = "err"

\* After a failure run is in the dispatch or join loop the failed task
\* belongs to, or has returned, and has not returned a value; a failed
\* named pipeline leaves the junction list of its stage empty.
AbortState ==
    /\ PipelineFailed =>
          /\ pc \in {"dispatch_pipelines", "join_pipelines", "returned"}
          /\ junction_tasks = << >>
          /\ result.kind # "ok"
    /\ JunctionFailed =>
          /\ pc \in {"dispatch_junctions", "join_junctions", "returned"}
          /\ result.kind # "ok"

\* After a failure no step starts a junction of the stage of a failed
\* pipeline, none enters a later stage and none forgets the failure; the
\* step that returns returns the error of a failed task.
AbortStep ==
    /\ PipelineFailed =>
          /\ PipelineFailed'
          /\ stage' = stage
          /\ junction_tasks' = << >>
    /\ JunctionFailed =>
          /\ JunctionFailed'
          /\ stage' = stage
          /\ spawned' # spawned => Len(junction_tasks') = Len(junction_tasks) + 1
    /\ ((PipelineFailed \/ JunctionFailed) /\ pc # "returned" /\ pc' = "returned") =>
          result'.kind = "err"

\* C18: once a named pipeline of stage k has failed no junction of stage k
\* and no task of a later stage is started; once a junction of stage k has
\* failed nothing of a later stage is started; run then returns an error,
\* never a value.
C18_FailureAborts ==
    /\ []AbortState
    /\ [][AbortStep]_vars

\* A named pipeline of the first stage failed and run returned its error
\* with no junction started.
C18_Witness ==
    /\ PipelineFailed
    /\ pc = "returned"
    /\ result.kind = "err"
    /\ stage = 1
    /\ junction_tasks = << >>
    /\ stage < NumStages

\* A junction of the first stage failed and run returned its error.
C18_WitnessJunction ==
    /\ JunctionFailed
    /\ pc = "returned"
    /\ result.kind = "err"
    /\ stage = 1

PipelineRunning(p) ==
    p \in 1..Len(pipeline_tasks) /\ pipeline_tasks[p].status = "running"
JunctionRunning(j) ==
    j \in 1..Len(junction_tasks) /\ junction_tasks[j].status = "running"

NoTaskRunning ==
    /\ \A p \in 1..MaxPipelines : ~PipelineRunning(p)
    /\ \A j \in 1..MaxJunctions : ~JunctionRunning(j)

\* A task leaves the lists of run only finished: run forgets no task that
\* is still executing, and a finished task stays finished.  Once run has
\* returned the store and the result do not change.
DiscardedStep ==
    /\ \A p \in 1..MaxPipelines : PipelineRunning(p) =>
          /\ p \in 1..Len(pipeline_tasks')
          /\ pipeline_tasks'[p].status = "running"
                \/ pipeline_tasks'[p].pos = pipeline_tasks'[p].ncmds
                \/ pipeline_tasks'[p].status = "err"
    /\ \A j \in 1..MaxJunctions : JunctionRunning(j) =>
          /\ j \in 1..Len(junction_tasks')
          /\ junction_tasks'[j].status = "running" \/ junction_tasks'[j].calls = 1
    /\ pc = "returned" =>
          /\ named_values' = named_values
          /\ result' = result
          /\ pc' = "returned"

\* C19: a task failure does not cancel the siblings: under fair scheduling
\* every spawned named pipeline or junction runs to completion (or to its
\* own first failure), also after run has returned a sibling's error, so
\* that from some point on no spawned task is still executing; what a task
\* produces after run has returned never enters the store.
C19_SiblingsRunToCompletion ==
    /\ <>[]NoTaskRunning
    /\ [][DiscardedStep]_vars

\* run returned the error of a named pipeline and a sibling then ran all its
\* commands; its output is not in the store.
C19_Witness ==
    /\ pc = "returned"
    /\ result.kind = "err"
    /\ \E p, q \in 1..Len(pipeline_tasks) :
          /\ pipeline_tasks[p].status = "err"
          /\ pipeline_tasks[q].status = "ok"
          /\ pipeline_tasks[q].late
          /\ pipeline_tasks[q].pos >= 1
          /\ pipeline_tasks[q].output \notin DOMAIN named_values

\* The same for two junctions.
C19_WitnessJunction ==
    /\ pc = "returned"
    /\ result.kind = "err"
    /\ \E j, k \in 1..Len(junction_tasks) :
          /\ junction_tasks[j].status = "err"
          /\ junction_tasks[k].status = "ok"
          /\ junction_tasks[k].late

\* C22: for a file present in the mapping the range end is computed from
\* the number of lines fetched without underflow: no span makes
\* ingest_html_lines panic and none has its end computed from a count of
\* zero.
C22_NoUnderflow ==
    present =>
        /\ ipc # "panicked"
        /\ \A i \in 1..Len(clamped) : Len(clamped[i].fetched) - 1 >= 0

\* The original line_ranges are pairwise disjoint and ascending, each holds
\* its key_line, and the mapping has every line of the expanded ranges.
DisjointAscendingAvailable ==
    /\ present
    /\ \A i \in 1..Len(orig_spans) :
          /\ orig_spans[i].line_range[1] <= orig_spans[i].key_line
          /\ orig_spans[i].key_line <= orig_spans[i].line_range[2]
          /\ \A l \in (orig_spans[i].line_range[1] - before)
                         ..(orig_spans[i].line_range[2] + after) :
                 l >= 1 => l \in file_contents
    /\ \A i \in 1..(Len(orig_spans) - 1) :
          orig_spans[i].line_range[2] < orig_spans[i + 1].line_range[1]

\* C24: then ingest_html_lines does not panic and the final line_range of
\* every span contains its original line_range, and so its key_line.
C24_RangeKeepsOriginal ==
    DisjointAscendingAvailable =>
        /\ ipc # "panicked"
        /\ \A i \in 1..Len(clamped) :
              /\ line_spans[i].line_range[1] <= orig_spans[i].line_range[1]
              /\ orig_spans[i].line_range[2] <= line_spans[i].line_range[2]
              /\ line_spans[i].line_range[1] <= line_spans[i].key_line
              /\ line_spans[i].key_line <= line_spans[i].line_range[2]
              /\ line_spans[i].key_line = orig_spans[i].key_line

\* Two abutting spans were processed with context on both sides, so that
\* both clamps applied.
C24_Witness ==
    /\ DisjointAscendingAvailable
    /\ ipc = "done"
    /\ Len(orig_spans) >= 2
    /\ before >= 1
    /\ after >= 1
    /\ orig_spans[1].line_range[2] + 1 = orig_spans[2].line_range[1]
    /\ clamped[1].end = orig_spans[1].line_range[2]
    /\ clamped[2].start = orig_spans[2].line_range[1]

\* C26: a.cmp(b) is Equal exactly when a == b.
C26_EqAgreesWithCmp ==
    qpc = "done" => ((q_cmp = "Equal") <=> q_eq)

\* The least index of a failed task of a list (0: none has failed).
FirstFailed(tasks) ==
    IF \E i \in 1..Len(tasks) : tasks[i].status = "err"
    THEN CHOOSE i \in 1..Len(tasks) :
            /\ tasks[i].status = "err"
            /\ \A k \in 1..(i - 1) : tasks[k].status # "err"
    ELSE 0

\* The error run returned is that of the earliest-declared failed task of
\* the list, every task declared before it having succeeded.
ErrorOfEarliest(tasks) ==
    LET f == FirstFailed(tasks)
    IN  /\ f > 0
        /\ result = ErrResult(tasks[f].err)
        /\ \A k \in 1..(f - 1) : tasks[k].status = "ok"

\* The greatest index of a task of the list declaring output key k.
LastDeclaring(tasks, k) ==
    CHOOSE i \in 1..Len(tasks) :
        /\ tasks[i].output = k
        /\ \A h \in (i + 1)..Len(tasks) : tasks[h].output # k

\* What a finished task produced is determined by its operations and by
\* the input it was dispatched with, and an error returned is the error of
\* the earliest-declared failed task.
DeterminedState ==
    /\ \A p \in 1..Len(pipeline_tasks) :
          pipeline_tasks[p].status = "ok" =>
              pipeline_tasks[p].cur = pipeline_tasks[p].input
                  \o [c \in 1..pipeline_tasks[p].ncmds |-> CmdId(stage, p, c)]
    /\ \A j \in 1..Len(junction_tasks) :
          junction_tasks[j].status = "ok" =>
              junction_tasks[j].val
                  = <<JunctionId(stage, j)>> \o FlattenInputs(junction_tasks[j].input_values)
    /\ (pc = "returned" /\ result.kind = "err") =>
          IF pipeline_tasks # << >> THEN ErrorOfEarliest(pipeline_tasks)
          ELSE ErrorOfEarliest(junction_tasks)

\* Outputs are inserted in declaration order, so that when a join loop is
\* over each key declared in it holds the value of the task declared last
\* with it; the value returned is the one under "result".
DeterminedStep ==
    /\ p_joined' = p_joined + 1 =>
          /\ named_values' = [k \in DOMAIN named_values \cup {pipeline_tasks[p_joined + 1].output} |->
                IF k = pipeline_tasks[p_joined + 1].output
                THEN pipeline_tasks[p_joined + 1].cur ELSE named_values[k]]
    /\ j_joined' = j_joined + 1 =>
          /\ named_values' = [k \in DOMAIN named_values \cup {junction_tasks[j_joined + 1].output} |->
                IF k = junction_tasks[j_joined + 1].output
                THEN junction_tasks[j_joined + 1].val ELSE named_values[k]]
    /\ (pc = "join_pipelines" /\ pc' = "dispatch_junctions") =>
          \A i \in 1..Len(pipeline_tasks) :
              LET k == pipeline_tasks[i].output
              IN  /\ k \in DOMAIN named_values
                  /\ named_values[k]
                        = pipeline_tasks[LastDeclaring(pipeline_tasks, k)].cur
    /\ (pc = "join_junctions" /\ pc' = "stage_loop") =>
          \A i \in 1..Len(junction_tasks) :
              LET k == junction_tasks[i].output
              IN  /\ k \in DOMAIN named_values
                  /\ named_values[k]
                        = junction_tasks[LastDeclaring(junction_tasks, k)].val
    /\ (pc # "returned" /\ pc' = "returned" /\ result'.kind = "ok") =>
          result'.val = (IF "result" \in DOMAIN named_values
                         THEN named_values["result"] ELSE << >>)

\* C21: with operations whose result depends only on their input, the
\* outcome of run does not depend on the order in which the tasks of a
\* stage complete: outputs are inserted in declaration order, the value of
\* the later-declared of two tasks with the same output key is kept, and
\* the error returned is that of the earliest-declared failed task.
C21_OutcomeByDeclarationOrder ==
    /\ []DeterminedState
    /\ [][DeterminedStep]_vars

\* Two named pipelines failed, the later-declared one before run returned,
\* and run returned the error of the earlier-declared one.
C21_Witness ==
    /\ pc = "returned"
    /\ Len(pipeline_tasks) = 2
    /\ pipeline_tasks[1].status = "err"
    /\ pipeline_tasks[2].status = "err"
    /\ ~pipeline_tasks[2].late
    /\ result = ErrResult(pipeline_tasks[1].err)

\* Two named pipelines of a stage declared the key "result", the
\* later-declared one finished while the other was still running, and run
\* returned the later-declared one's value.
C21_WitnessSameKey ==
    /\ pc = "join_pipelines"
    /\ Len(pipeline_tasks) = 2
    /\ pipeline_tasks[1].output = "result"
    /\ pipeline_tasks[2].output = "result"
    /\ pipeline_tasks[1].status = "running"
    /\ pipeline_tasks[2].status = "ok"

\* No operation instance has been executed twice: a named pipeline has
\* executed the first pos of its commands, each once and in order, and a
\* junction has invoked its operation at most once.
AtMostOnce ==
    /\ \A p \in 1..Len(pipeline_tasks) :
          LET t == pipeline_tasks[p]
          IN  /\ Len(t.log) <= t.ncmds
              /\ \A i \in 1..Len(t.log) : t.log[i].cmd = i
    /\ \A j \in 1..Len(junction_tasks) : junction_tasks[j].calls <= 1

\* run lets go of the tasks of a join loop, on its way to a value, only
\* when each has executed every one of its operations exactly once; it
\* returns a value with no task left.
ExactlyOnceStep ==
    /\ Len(pipeline_tasks') < Len(pipeline_tasks) =>
          \A p \in 1..Len(pipeline_tasks) :
              LET t == pipeline_tasks[p]
              IN  /\ t.status = "ok"
                  /\ Len(t.log) = t.ncmds
                  /\ \A i \in 1..t.ncmds : t.log[i].cmd = i
    /\ Len(junction_tasks') < Len(junction_tasks) =>
          \A j \in 1..Len(junction_tasks) :
              /\ junction_tasks[j].status = "ok"
              /\ junction_tasks[j].calls = 1
    /\ (pc # "returned" /\ pc' = "returned" /\ result'.kind = "ok") =>
          /\ pipeline_tasks = << >>
          /\ junction_tasks = << >>

\* C23: on a finite graph whose operations terminate run eventually
\* returns, a value or an error, under fair scheduling; no operation
\* instance is executed more than once, and when run returns a value every
\* operation of every named pipeline and junction was executed exactly
\* once.
C23_ReturnsAndRunsOnce ==
    /\ <>(pc = "returned")
    /\ []AtMostOnce
    /\ [][ExactlyOnceStep]_vars

\* run returned a value after a named pipeline of two commands and a
\* junction had run.
C23_Witness ==
    /\ pc = "returned"
    /\ result.kind = "ok"
    /\ Len(result.val) >= 3
    /\ spawned >= 2

\* The lines of the isolated expansion of a span.
IsolatedLines(span) ==
    {l \in 1..(span.line_range[2] + after) : l >= span.line_range[1] - before}

\* The files of the bundle and, for a file, the lines of the isolated
\* expansions of all its spans in all the groups.
BundleFiles == {orig_bundle[i].file : i \in 1..Len(orig_bundle)}
UnionOfExpansions(file) ==
    UNION {IsolatedLines(orig_bundle[i].line_spans[n]) :
              <<i, n>> \in {x \in (1..Len(orig_bundle)) \X (1..MaxBundleSpans) :
                               /\ orig_bundle[x[1]].file = file
                               /\ x[2] <= Len(orig_bundle[x[1]].line_spans)}}

\* C25: with the same before/after, every line ingest_html_lines looks up
\* for a file is in the set compute_path_line_sets gave for that file, and
\* compute_path_line_sets has an entry for every file of the bundle, the
\* union of the isolated expansions of all the spans of the file.
C25_LookupsWithinLineSets ==
    /\ \A f \in DOMAIN lookups :
          /\ f \in DOMAIN path_line_sets
          /\ lookups[f] \subseteq path_line_sets[f]
    /\ (bpc = "ingest" /\ ipc # "idle") =>
          /\ bundle[b_idx + 1].file \in DOMAIN path_line_sets
          /\ looked_up \subseteq path_line_sets[bundle[b_idx + 1].file]
    /\ bpc \in {"computed", "ingest", "done"} =>
          /\ DOMAIN path_line_sets = BundleFiles
          /\ \A f \in BundleFiles : path_line_sets[f] = UnionOfExpansions(f)

\* Both passes are over a bundle with the same file in two groups, with
\* different spans, and lines of both were looked up.
C25_Witness ==
    /\ bpc = "done"
    /\ Len(orig_bundle) = 2
    /\ orig_bundle[1].file = orig_bundle[2].file
    /\ orig_bundle[1].group # orig_bundle[2].group
    /\ orig_bundle[1].line_spans # << >>
    /\ orig_bundle[2].line_spans # << >>
    /\ orig_bundle[1].line_spans # orig_bundle[2].line_spans
    /\ before + after >= 1
    /\ \A i \in 1..2 :
          lookups[orig_bundle[1].file] # IsolatedLines(orig_bundle[i].line_spans[1])

====
